---- MODULE Spec2Model ----
(***************************************************************************)
(* Model of src/src/app.py, the Mergington High School activities API:     *)
(* the credential store loaded at startup, the in-memory session table,    *)
(* the in-memory activity registry and the HTTP handlers over them.        *)
(*                                                                         *)
(* Spec     runs every request atomically (one handler call per step).     *)
(* SpecConc runs signup and unregister requests on worker threads, the     *)
(*          membership test and the list mutation being separate steps.    *)
(***************************************************************************)
EXTENDS Integers, Sequences, FiniteSets, TLC

\* ---------------------------------------------------------------------------
\* Bounds of the model
\* ---------------------------------------------------------------------------

\* Number of session tokens secrets.token_urlsafe hands out in one behaviour.
MaxTokens == 2

\* Number of worker threads that serve signup/unregister requests in SpecConc.
NumThreads == 2

\* ---------------------------------------------------------------------------
\* Values
\* ---------------------------------------------------------------------------

\* Python's None (a missing cookie, a missing JSON key, dict.get's default).
None == "<None>"

\* Python truthiness of an optional string: None and "" are falsy.
Falsy(x) == x = None \/ x = ""

\* A cookie value a client made up; secrets.token_urlsafe never returns it.
Forged == "forged-token"

\* The i-th value returned by secrets.token_urlsafe(32). The 256 random bits
\* are modelled as a value that was never returned before and that no client
\* can present before it was issued.
TokenUrlsafe(i) == "token-" \o ToString(i)

\* The activity names of the registry (keys of the activities dict).
ActivityNames ==
  {"Chess Club",
   "Programming Class",
   "Gym Class",
   "Soccer Team",
   "Basketball Team",
   "Art Club",
   "Drama Club",
   "Math Club",
   "Debate Team"}

\* The seed record of one activity.
SeedActivity(name) ==
    IF name = "Chess Club" THEN
      [description |-> "Learn strategies and compete in chess tournaments",
       schedule |-> "Fridays, 3:30 PM - 5:00 PM",
       max_participants |-> 12,
       participants |-> <<"michael@mergington.edu", "daniel@mergington.edu">>]
    ELSE
    IF name = "Programming Class" THEN
      [description |-> "Learn programming fundamentals and build software projects",
       schedule |-> "Tuesdays and Thursdays, 3:30 PM - 4:30 PM",
       max_participants |-> 20,
       participants |-> <<"emma@mergington.edu", "sophia@mergington.edu">>]
    ELSE
    IF name = "Gym Class" THEN
      [description |-> "Physical education and sports activities",
       schedule |-> "Mondays, Wednesdays, Fridays, 2:00 PM - 3:00 PM",
       max_participants |-> 30,
       participants |-> <<"john@mergington.edu", "olivia@mergington.edu">>]
    ELSE
    IF name = "Soccer Team" THEN
      [description |-> "Join the school soccer team and compete in matches",
       schedule |-> "Tuesdays and Thursdays, 4:00 PM - 5:30 PM",
       max_participants |-> 22,
       participants |-> <<"liam@mergington.edu", "noah@mergington.edu">>]
    ELSE
    IF name = "Basketball Team" THEN
      [description |-> "Practice and play basketball with the school team",
       schedule |-> "Wednesdays and Fridays, 3:30 PM - 5:00 PM",
       max_participants |-> 15,
       participants |-> <<"ava@mergington.edu", "mia@mergington.edu">>]
    ELSE
    IF name = "Art Club" THEN
      [description |-> "Explore your creativity through painting and drawing",
       schedule |-> "Thursdays, 3:30 PM - 5:00 PM",
       max_participants |-> 15,
       participants |-> <<"amelia@mergington.edu", "harper@mergington.edu">>]
    ELSE
    IF name = "Drama Club" THEN
      [description |-> "Act, direct, and produce plays and performances",
       schedule |-> "Mondays and Wednesdays, 4:00 PM - 5:30 PM",
       max_participants |-> 20,
       participants |-> <<"ella@mergington.edu", "scarlett@mergington.edu">>]
    ELSE
    IF name = "Math Club" THEN
      [description |-> "Solve challenging problems and participate in math competitions",
       schedule |-> "Tuesdays, 3:30 PM - 4:30 PM",
       max_participants |-> 10,
       participants |-> <<"james@mergington.edu", "benjamin@mergington.edu">>]
    ELSE
    IF name = "Debate Team" THEN
      [description |-> "Develop public speaking and argumentation skills",
       schedule |-> "Fridays, 4:00 PM - 5:30 PM",
       max_participants |-> 12,
       participants |-> <<"charlotte@mergington.edu", "henry@mergington.edu">>]
    ELSE
      [description |-> "", schedule |-> "", max_participants |-> 0,
       participants |-> <<>>]

\* The activities dict as built at import time.
SeedActivities == [name \in ActivityNames |-> SeedActivity(name)]

\* Request inputs: path parameter activity_name (one name is not in the
\* registry) and query parameter email.
RequestNames == {"Chess Club", "Knitting Circle"}
RequestEmails == {"michael@mergington.edu", "new@mergington.edu"}

\* Request inputs of the threaded requests of SpecConc: the email.
ConcEmails == {"new@mergington.edu"}

\* Request inputs: the LoginRequest body.
RequestUsernames == {"mr.smith", "ms.jones", "nobody"}
RequestPasswords == {"secret", "hunter2", ""}

\* Contents of teachers.json the process may be started with: exists is
\* FALSE when the file is not there, teachers is the list under the key
\* "teachers". A missing key of an entry reads as None.
TeachersFiles ==
  { [exists |-> FALSE, teachers |-> << >>],
    [exists |-> TRUE, teachers |-> << >>],
    [exists |-> TRUE, teachers |->
       << [username |-> "mr.smith", password |-> ""],
          [username |-> None, password |-> "secret"] >>],
    [exists |-> TRUE, teachers |->
       << [username |-> "mr.smith", password |-> "secret"],
          [username |-> "ms.jones", password |-> "hunter2"] >>],
    [exists |-> TRUE, teachers |->
       << [username |-> "mr.smith", password |-> "secret"],
          [username |-> "ms.jones", password |-> ""],
          [username |-> "", password |-> "hunter2"] >>] }

\* ---------------------------------------------------------------------------
\* Python containers
\* ---------------------------------------------------------------------------

\* x in list
ListContains(list, x) == \E i \in 1..Len(list) : list[i] = x

\* list.count(x)
ListCount(list, x) == Cardinality({i \in 1..Len(list) : list[i] = x})

\* Mutant of ListAppend: the element is put at the front (list.insert(0, x)).
ListAppend_Prepend(list, x) == <<x>> \o list

\* list.append(x)
ListAppend(list, x) == Append(list, x)

\* Mutant of ListRemove: drops the head of the list instead (list.pop(0)).
ListRemove_PopFirst(list, x) == Tail(list)

\* list.remove(x) for x in list: drops the first occurrence of x.
ListRemove(list, x) ==
  LET k == CHOOSE i \in 1..Len(list) :
             list[i] = x /\ \A j \in 1..(i - 1) : list[j] # x
  IN [i \in 1..(Len(list) - 1) |-> IF i < k THEN list[i] ELSE list[i + 1]]

\* dict.get(key) with default None
DictGet(dict, key) == IF key \in DOMAIN dict THEN dict[key] ELSE None

\* dict[key] = value
DictSet(dict, key, value) ==
  [k \in DOMAIN dict \cup {key} |-> IF k = key THEN value ELSE dict[k]]

\* dict.pop(key, None)
DictPop(dict, key) == [k \in DOMAIN dict \ {key} |-> dict[k]]

\* The empty dict
EmptyDict == [k \in {} |-> None]

\* ---------------------------------------------------------------------------
\* Startup: load_teachers
\* ---------------------------------------------------------------------------

\* Mutant of LoadEntries: only the username of an entry is tested.
RECURSIVE LoadEntries_UsernameOnly(_, _)
LoadEntries_UsernameOnly(teachers, n) ==
  IF n = 0 THEN [k \in {} |-> None]
  ELSE LET rest == LoadEntries_UsernameOnly(teachers, n - 1)
           teacher == teachers[n]
       IN IF ~Falsy(teacher.username)
          THEN DictSet(rest, teacher.username, teacher.password)
          ELSE rest

\* The loop of load_teachers over the first n entries of the list.
RECURSIVE LoadEntries(_, _)
LoadEntries(teachers, n) ==
  IF n = 0 THEN EmptyDict
  ELSE LET rest == LoadEntries(teachers, n - 1)
           teacher == teachers[n]
       IN IF ~Falsy(teacher.username) /\ ~Falsy(teacher.password)
          THEN DictSet(rest, teacher.username, teacher.password)
          ELSE rest

\* load_teachers: raised tells whether it raises RuntimeError, value is the
\* dict it returns otherwise.
LoadTeachers(file) ==
  IF ~file.exists THEN [raised |-> TRUE, value |-> EmptyDict]
  ELSE LET creds == LoadEntries(file.teachers, Len(file.teachers))
       IN IF DOMAIN creds = {}
          THEN [raised |-> TRUE, value |-> EmptyDict]
          ELSE [raised |-> FALSE, value |-> creds]

\* ---------------------------------------------------------------------------
\* State
\* ---------------------------------------------------------------------------

VARIABLES
  teachers_file,        \* the content of teachers.json at startup
  startup,              \* "running", or "failed" when load_teachers raised
  teacher_credentials,  \* dict username -> password
  teacher_sessions,     \* dict session token -> username
  activities,           \* dict activity name -> activity record
  tokens_issued,        \* how many tokens secrets.token_urlsafe has returned
  threads,              \* SpecConc: the request each worker thread is serving
  last                  \* the last completed request and its response

vars == <<teachers_file, startup, teacher_credentials, teacher_sessions,
          activities, tokens_issued, threads, last>>

Threads == 1..NumThreads

\* A worker thread that serves no request.
IdleThread == [pc |-> "idle", op |-> None, name |-> None, email |-> None,
               cookie |-> None]

\* The values of the teacher_session cookie a client can send: none, an
\* empty one, a made-up one, or a token some login response has set.
RequestCookies ==
  {None, "", Forged} \cup {TokenUrlsafe(i) : i \in 1..tokens_issued}

\* A completed request with its response. Fields a request or response does
\* not have are None; body is the JSON body of GET /activities.
Response(op, cookie, name, email, username, password, status) ==
  [op |-> op, cookie |-> cookie, name |-> name, email |-> email,
   username |-> username, password |-> password, status |-> status,
   set_cookie |-> None, authenticated |-> FALSE, body |-> EmptyDict]

NoResponse == Response(None, None, None, None, None, None, 0)

Init ==
  /\ teachers_file \in TeachersFiles
  /\ startup = IF LoadTeachers(teachers_file).raised THEN "failed" ELSE "running"
  /\ teacher_credentials = LoadTeachers(teachers_file).value
  /\ teacher_sessions = EmptyDict
  /\ activities = SeedActivities
  /\ tokens_issued = 0
  /\ threads = [t \in Threads |-> IdleThread]
  /\ last = NoResponse

\* ---------------------------------------------------------------------------
\* Authentication helpers
\* ---------------------------------------------------------------------------

\* Mutant of GetCurrentTeacher: a missing or empty cookie gives "" instead
\* of None.
GetCurrentTeacher_EmptyString(sessions, cookie) ==
  IF Falsy(cookie) THEN "" ELSE DictGet(sessions, cookie)

\* get_current_teacher: the username of the session, or None.
GetCurrentTeacher(sessions, cookie) ==
  IF Falsy(cookie) THEN None ELSE DictGet(sessions, cookie)

\* require_teacher: TRUE when it raises HTTPException(401).
RequireTeacherRaises(sessions, cookie) ==
  Falsy(GetCurrentTeacher(sessions, cookie))

\* Mutant of LoginRejected: the password is not compared.
LoginRejected_AnyPassword(credentials, username, password) ==
  Falsy(DictGet(credentials, username))

\* Mutant of LoginRejected: the stored password defaults to "" and is only
\* compared with the given one.
LoginRejected_DefaultEmpty(credentials, username, password) ==
  LET expected_password == IF username \in DOMAIN credentials
                           THEN credentials[username] ELSE ""
  IN expected_password # password

\* login_teacher's test of the credentials: TRUE when it raises 401.
LoginRejected(credentials, username, password) ==
  LET expected_password == DictGet(credentials, username)
  IN Falsy(expected_password) \/ expected_password # password

\* Mutant of LogoutSessions: the token is not removed.
LogoutSessions_NoPop(sessions, cookie) == sessions

\* Mutant of LogoutSessions: every session of the token's teacher is removed.
LogoutSessions_AllOfTeacher(sessions, cookie) ==
  IF ~Falsy(cookie) /\ cookie \in DOMAIN sessions
  THEN [k \in {k \in DOMAIN sessions : sessions[k] # sessions[cookie]}
          |-> sessions[k]]
  ELSE sessions

\* logout_teacher's effect on the session table.
LogoutSessions(sessions, cookie) ==
  IF ~Falsy(cookie) THEN DictPop(sessions, cookie) ELSE sessions

\* ---------------------------------------------------------------------------
\* Registry helpers
\* ---------------------------------------------------------------------------

\* Mutant of WithParticipants: the activities share one participants list.
WithParticipants_SharedList(acts, name, participants) ==
  [n \in DOMAIN acts |-> [acts[n] EXCEPT !.participants = participants]]

\* The activities dict after activity["participants"] was replaced.
WithParticipants(acts, name, participants) ==
  [acts EXCEPT ![name].participants = participants]

\* Mutant of SignupOutcome: the membership test is missing.
SignupOutcome_NoMembershipTest(sessions, acts, cookie, name, email) ==
  IF RequireTeacherRaises(sessions, cookie) THEN
    [status |-> 401, activities |-> acts]
  ELSE IF name \notin DOMAIN acts THEN
    [status |-> 404, activities |-> acts]
  ELSE
    [status |-> 200,
     activities |->
       WithParticipants(acts, name, ListAppend(acts[name].participants, email))]

\* Mutant of SignupOutcome: a duplicate is reported but appended all the same.
SignupOutcome_AppendsDuplicate(sessions, acts, cookie, name, email) ==
  IF RequireTeacherRaises(sessions, cookie) THEN
    [status |-> 401, activities |-> acts]
  ELSE IF name \notin DOMAIN acts THEN
    [status |-> 404, activities |-> acts]
  ELSE
    [status |-> IF ListContains(acts[name].participants, email)
                THEN 400 ELSE 200,
     activities |->
       WithParticipants(acts, name, ListAppend(acts[name].participants, email))]

\* Mutant of SignupOutcome: an unknown activity is reported as 400.
SignupOutcome_UnknownIs400(sessions, acts, cookie, name, email) ==
  IF RequireTeacherRaises(sessions, cookie) THEN
    [status |-> 401, activities |-> acts]
  ELSE IF name \notin DOMAIN acts THEN
    [status |-> 400, activities |-> acts]
  ELSE IF ListContains(acts[name].participants, email) THEN
    [status |-> 400, activities |-> acts]
  ELSE
    [status |-> 200,
     activities |->
       WithParticipants(acts, name, ListAppend(acts[name].participants, email))]

\* Mutant of SignupOutcome: a full activity takes no further participant.
SignupOutcome_ChecksCapacity(sessions, acts, cookie, name, email) ==
  IF RequireTeacherRaises(sessions, cookie) THEN
    [status |-> 401, activities |-> acts]
  ELSE IF name \notin DOMAIN acts THEN
    [status |-> 404, activities |-> acts]
  ELSE IF ListContains(acts[name].participants, email) THEN
    [status |-> 400, activities |-> acts]
  ELSE IF Len(acts[name].participants) >= acts[name].max_participants THEN
    [status |-> 400, activities |-> acts]
  ELSE
    [status |-> 200,
     activities |->
       WithParticipants(acts, name, ListAppend(acts[name].participants, email))]

\* signup_for_activity from the first statement to the return or the raise:
\* the status and the activities dict it leaves.
SignupOutcome(sessions, acts, cookie, name, email) ==
  IF RequireTeacherRaises(sessions, cookie) THEN
    [status |-> 401, activities |-> acts]
  ELSE IF name \notin DOMAIN acts THEN
    [status |-> 404, activities |-> acts]
  ELSE IF ListContains(acts[name].participants, email) THEN
    [status |-> 400, activities |-> acts]
  ELSE
    [status |-> 200,
     activities |->
       WithParticipants(acts, name, ListAppend(acts[name].participants, email))]

\* Mutant of UnregisterOutcome: the activity is looked up before the
\* authentication gate.
UnregisterOutcome_LookupFirst(sessions, acts, cookie, name, email) ==
  IF name \notin DOMAIN acts THEN
    [status |-> 404, activities |-> acts]
  ELSE IF RequireTeacherRaises(sessions, cookie) THEN
    [status |-> 401, activities |-> acts]
  ELSE IF ~ListContains(acts[name].participants, email) THEN
    [status |-> 400, activities |-> acts]
  ELSE
    [status |-> 200,
     activities |->
       WithParticipants(acts, name, ListRemove(acts[name].participants, email))]

\* Mutant of UnregisterOutcome: only mr.smith may unregister a student.
UnregisterOutcome_OneTeacherOnly(sessions, acts, cookie, name, email) ==
  IF RequireTeacherRaises(sessions, cookie) THEN
    [status |-> 401, activities |-> acts]
  ELSE IF sessions[cookie] # "mr.smith" THEN
    [status |-> 401, activities |-> acts]
  ELSE IF name \notin DOMAIN acts THEN
    [status |-> 404, activities |-> acts]
  ELSE IF ~ListContains(acts[name].participants, email) THEN
    [status |-> 400, activities |-> acts]
  ELSE
    [status |-> 200,
     activities |->
       WithParticipants(acts, name, ListRemove(acts[name].participants, email))]

\* unregister_from_activity from the first statement to the return or raise.
UnregisterOutcome(sessions, acts, cookie, name, email) ==
  IF RequireTeacherRaises(sessions, cookie) THEN
    [status |-> 401, activities |-> acts]
  ELSE IF name \notin DOMAIN acts THEN
    [status |-> 404, activities |-> acts]
  ELSE IF ~ListContains(acts[name].participants, email) THEN
    [status |-> 400, activities |-> acts]
  ELSE
    [status |-> 200,
     activities |->
       WithParticipants(acts, name, ListRemove(acts[name].participants, email))]

\* ---------------------------------------------------------------------------
\* Handlers, one request per step
\* ---------------------------------------------------------------------------

\* GET /
Root ==
  /\ startup = "running"
  /\ last' = Response("root", None, None, None, None, None, 307)
  /\ UNCHANGED <<teachers_file, startup, teacher_credentials, teacher_sessions,
                 activities, tokens_issued, threads>>

\* GET /activities
GetActivities ==
  /\ startup = "running"
  /\ last' = [Response("get_activities", None, None, None, None, None, 200)
                EXCEPT !.body = activities]
  /\ UNCHANGED <<teachers_file, startup, teacher_credentials, teacher_sessions,
                 activities, tokens_issued, threads>>

\* Mutant of LoginTeacher: a login ends the teacher's earlier sessions.
LoginTeacher_SingleSession(username, password) ==
  /\ startup = "running"
  /\ IF LoginRejected(teacher_credentials, username, password) THEN
       /\ last' = Response("login", None, None, None, username, password, 401)
       /\ UNCHANGED <<teacher_sessions, tokens_issued>>
     ELSE
       /\ tokens_issued < MaxTokens
       /\ LET session_token == TokenUrlsafe(tokens_issued + 1)
              others == [k \in {k \in DOMAIN teacher_sessions :
                                  teacher_sessions[k] # username}
                           |-> teacher_sessions[k]]
          IN /\ teacher_sessions' = DictSet(others, session_token, username)
             /\ last' = [Response("login", None, None, None,
                                  username, password, 200)
                           EXCEPT !.set_cookie = session_token,
                                  !.username = username]
       /\ tokens_issued' = tokens_issued + 1
  /\ UNCHANGED <<teachers_file, startup, teacher_credentials, activities,
                 threads>>

\* POST /auth/login
LoginTeacher(username, password) ==
  /\ startup = "running"
  /\ IF LoginRejected(teacher_credentials, username, password) THEN
       /\ last' = Response("login", None, None, None, username, password, 401)
       /\ UNCHANGED <<teacher_sessions, tokens_issued>>
     ELSE
       /\ tokens_issued < MaxTokens
       /\ LET session_token == TokenUrlsafe(tokens_issued + 1)
          IN /\ teacher_sessions' =
                  DictSet(teacher_sessions, session_token, username)
             /\ last' = [Response("login", None, None, None,
                                  username, password, 200)
                           EXCEPT !.set_cookie = session_token,
                                  !.username = username]
       /\ tokens_issued' = tokens_issued + 1
  /\ UNCHANGED <<teachers_file, startup, teacher_credentials, activities,
                 threads>>

\* Mutant of LogoutTeacher: the token is popped without a default, so a token
\* that is not in the table ends the request with an error.
LogoutTeacher_StrictPop(cookie) ==
  /\ startup = "running"
  /\ teacher_sessions' = LogoutSessions(teacher_sessions, cookie)
  /\ last' = Response("logout", cookie, None, None, None, None,
                      IF Falsy(cookie) \/ cookie \in DOMAIN teacher_sessions
                      THEN 200 ELSE 500)
  /\ UNCHANGED <<teachers_file, startup, teacher_credentials, activities,
                 tokens_issued, threads>>

\* POST /auth/logout
LogoutTeacher(cookie) ==
  /\ startup = "running"
  /\ teacher_sessions' = LogoutSessions(teacher_sessions, cookie)
  /\ last' = Response("logout", cookie, None, None, None, None, 200)
  /\ UNCHANGED <<teachers_file, startup, teacher_credentials, activities,
                 tokens_issued, threads>>

\* GET /auth/status
AuthStatus(cookie) ==
  /\ startup = "running"
  /\ LET teacher_username == GetCurrentTeacher(teacher_sessions, cookie)
     IN last' = [Response("status", cookie, None, None,
                          teacher_username, None, 200)
                   EXCEPT !.authenticated = (teacher_username # None)]
  /\ UNCHANGED <<teachers_file, startup, teacher_credentials, teacher_sessions,
                 activities, tokens_issued, threads>>

\* POST /activities/{activity_name}/signup
SignupForActivity(cookie, name, email) ==
  /\ startup = "running"
  /\ LET out == SignupOutcome(teacher_sessions, activities, cookie, name, email)
     IN /\ activities' = out.activities
        /\ last' = Response("signup", cookie, name, email, None, None,
                            out.status)
  /\ UNCHANGED <<teachers_file, startup, teacher_credentials, teacher_sessions,
                 tokens_issued, threads>>

\* DELETE /activities/{activity_name}/unregister
UnregisterFromActivity(cookie, name, email) ==
  /\ startup = "running"
  /\ LET out == UnregisterOutcome(teacher_sessions, activities, cookie, name,
                                  email)
     IN /\ activities' = out.activities
        /\ last' = Response("unregister", cookie, name, email, None, None,
                            out.status)
  /\ UNCHANGED <<teachers_file, startup, teacher_credentials, teacher_sessions,
                 tokens_issued, threads>>

Next ==
  \/ Root
  \/ GetActivities
  \/ \E username \in RequestUsernames, password \in RequestPasswords :
       LoginTeacher(username, password)
  \/ \E cookie \in RequestCookies : LogoutTeacher(cookie)
  \/ \E cookie \in RequestCookies : AuthStatus(cookie)
  \/ \E cookie \in RequestCookies, name \in RequestNames,
        email \in RequestEmails : SignupForActivity(cookie, name, email)
  \/ \E cookie \in RequestCookies, name \in RequestNames,
        email \in RequestEmails : UnregisterFromActivity(cookie, name, email)

Spec == Init /\ [][Next]_vars

\* ---------------------------------------------------------------------------
\* Handlers on worker threads (FastAPI runs a def endpoint in a thread pool;
\* no lock guards the registry). A thread can be preempted between the
\* membership test and the list mutation. The statements before the test
\* only read, so running them in one step with the test loses no behaviour.
\* ---------------------------------------------------------------------------

\* signup_for_activity up to the membership test: the status it raises, or
\* 0 when it goes on to the append.
SignupTest(sessions, acts, cookie, name, email) ==
  IF RequireTeacherRaises(sessions, cookie) THEN 401
  ELSE IF name \notin DOMAIN acts THEN 404
  ELSE IF ListContains(acts[name].participants, email) THEN 400
  ELSE 0

\* unregister_from_activity up to the membership test, likewise.
UnregisterTest(sessions, acts, cookie, name, email) ==
  IF RequireTeacherRaises(sessions, cookie) THEN 401
  ELSE IF name \notin DOMAIN acts THEN 404
  ELSE IF ~ListContains(acts[name].participants, email) THEN 400
  ELSE 0

\* Thread t takes a signup request and runs it up to the membership test.
SignupBegin(t, cookie, name, email) ==
  /\ startup = "running"
  /\ threads[t].pc = "idle"
  /\ LET status == SignupTest(teacher_sessions, activities, cookie, name, email)
     IN IF status # 0 THEN
          /\ last' = Response("signup", cookie, name, email, None, None, status)
          /\ UNCHANGED threads
        ELSE
          /\ threads' = [threads EXCEPT ![t] =
                           [pc |-> "append", op |-> "signup", name |-> name,
                            email |-> email, cookie |-> cookie]]
          /\ UNCHANGED last
  /\ UNCHANGED <<teachers_file, startup, teacher_credentials, teacher_sessions,
                 activities, tokens_issued>>

\* Thread t runs activity["participants"].append(email) and returns.
SignupAppend(t) ==
  /\ threads[t].pc = "append"
  /\ LET req == threads[t]
     IN /\ activities' =
             WithParticipants(activities, req.name,
               ListAppend(activities[req.name].participants, req.email))
        /\ last' = Response("signup", req.cookie, req.name, req.email,
                            None, None, 200)
  /\ threads' = [threads EXCEPT ![t] = IdleThread]
  /\ UNCHANGED <<teachers_file, startup, teacher_credentials, teacher_sessions,
                 tokens_issued>>

\* Thread t takes an unregister request and runs it up to the membership test.
UnregisterBegin(t, cookie, name, email) ==
  /\ startup = "running"
  /\ threads[t].pc = "idle"
  /\ LET status == UnregisterTest(teacher_sessions, activities, cookie, name,
                                  email)
     IN IF status # 0 THEN
          /\ last' = Response("unregister", cookie, name, email, None, None,
                              status)
          /\ UNCHANGED threads
        ELSE
          /\ threads' = [threads EXCEPT ![t] =
                           [pc |-> "remove", op |-> "unregister", name |-> name,
                            email |-> email, cookie |-> cookie]]
          /\ UNCHANGED last
  /\ UNCHANGED <<teachers_file, startup, teacher_credentials, teacher_sessions,
                 activities, tokens_issued>>

\* Thread t runs activity["participants"].remove(email) and returns;
\* list.remove raises ValueError when the email is no longer in the list,
\* which the server answers with 500.
UnregisterRemove(t) ==
  /\ threads[t].pc = "remove"
  /\ LET req == threads[t]
         participants == activities[req.name].participants
     IN IF ListContains(participants, req.email) THEN
          /\ activities' = WithParticipants(activities, req.name,
                             ListRemove(participants, req.email))
          /\ last' = Response("unregister", req.cookie, req.name, req.email,
                              None, None, 200)
        ELSE
          /\ last' = Response("unregister", req.cookie, req.name, req.email,
                              None, None, 500)
          /\ UNCHANGED activities
  /\ threads' = [threads EXCEPT ![t] = IdleThread]
  /\ UNCHANGED <<teachers_file, startup, teacher_credentials, teacher_sessions,
                 tokens_issued>>

NextConc ==
  \/ Root
  \/ GetActivities
  \/ \E username \in RequestUsernames, password \in RequestPasswords :
       LoginTeacher(username, password)
  \/ \E cookie \in RequestCookies : LogoutTeacher(cookie)
  \/ \E cookie \in RequestCookies : AuthStatus(cookie)
  \/ \E t \in Threads, cookie \in RequestCookies, name \in RequestNames,
        email \in ConcEmails : SignupBegin(t, cookie, name, email)
  \/ \E t \in Threads : SignupAppend(t)
  \/ \E t \in Threads, cookie \in RequestCookies, name \in RequestNames,
        email \in ConcEmails : UnregisterBegin(t, cookie, name, email)
  \/ \E t \in Threads : UnregisterRemove(t)

SpecConc == Init /\ [][NextConc]_vars

\* ---------------------------------------------------------------------------
\* The registry with one activity at capacity
\* ---------------------------------------------------------------------------

\* The email of the i-th further student.
StudentEmail(i) == "student" \o ToString(i) \o "@mergington.edu"

\* The participants of an activity after as many further students were
\* signed up as it takes to reach its max_participants.
FilledParticipants(name) ==
  LET seed == SeedActivity(name).participants
      room == SeedActivity(name).max_participants - Len(seed)
  IN seed \o [i \in 1..room |-> StudentEmail(i)]

\* The state after mr.smith logged in, signed further students up for Chess
\* Club until it had max_participants participants, and logged out.
InitCap ==
  /\ teachers_file \in {file \in TeachersFiles : ~LoadTeachers(file).raised}
  /\ startup = "running"
  /\ teacher_credentials = LoadTeachers(teachers_file).value
  /\ LoginRejected(teacher_credentials, "mr.smith", "secret") = FALSE
  /\ teacher_sessions = EmptyDict
  /\ activities = WithParticipants(SeedActivities, "Chess Club",
                                   FilledParticipants("Chess Club"))
  /\ tokens_issued = 1
  /\ threads = [t \in Threads |-> IdleThread]
  /\ last = Response("logout", TokenUrlsafe(1), None, None, None, None, 200)

SpecCap == InitCap /\ [][Next]_vars

\* ---------------------------------------------------------------------------
\* Vocabulary of the properties
\* ---------------------------------------------------------------------------

NewEmail == "new@mergington.edu"
SeedEmail == "michael@mergington.edu"

\* The cookie is absent, empty, or not a key of the session table.
NoSession(sessions, cookie) ==
  cookie = None \/ cookie = "" \/ cookie \notin DOMAIN sessions

\* The step completes a request of one of the given operations.
Completes(ops) == last'.op \in ops /\ vars' # vars

\* No element occurs twice in the list.
IsUnique(list) ==
  \A i, j \in 1..Len(list) : list[i] = list[j] => i = j

\* ---------------------------------------------------------------------------
\* Properties
\* ---------------------------------------------------------------------------

\* C1: with requests run atomically, no participants list ever holds the same
\* email twice, and right after a successful signup(A, e) the email e occurs
\* exactly once in A's participants.
C1_UniqueParticipants ==
  /\ \A name \in DOMAIN activities : IsUnique(activities[name].participants)
  /\ (last.op = "signup" /\ last.status = 200) =>
       ListCount(activities[last.name].participants, last.email) = 1

C1_Witness ==
  /\ last.op = "signup"
  /\ last.status = 200
  /\ last.email = NewEmail
  /\ ListContains(activities["Chess Club"].participants, NewEmail)

\* C2: a signup or unregister request whose cookie is absent, empty or not a
\* key of the session table ends with 401, whatever the activity name and
\* email, and changes neither the activities nor the session table.
C2_UnauthenticatedRejected ==
  [][(Completes({"signup", "unregister"})
        /\ NoSession(teacher_sessions, last'.cookie))
      => /\ last'.status = 401
         /\ activities' = activities
         /\ teacher_sessions' = teacher_sessions]_vars

C2_Witness ==
  /\ last.op = "unregister"
  /\ last.status = 401
  /\ last.cookie = Forged
  /\ last.name = "Chess Club"
  /\ last.email = SeedEmail
  /\ DOMAIN teacher_sessions # {}

\* C3 as claimed: a signup or unregister request that names an activity not
\* in the registry ends with 404 whether or not the cookie is a valid session
\* token, and changes no state.
C3_Original ==
  [][(Completes({"signup", "unregister"})
        /\ last'.name \notin DOMAIN activities)
      => /\ last'.status = 404
         /\ activities' = activities
         /\ teacher_sessions' = teacher_sessions]_vars

\* C3 as amended: a request that names an activity not in the registry ends
\* with 404 when the cookie is a valid session token and with 401 when it is
\* not, and changes no state in either case.
C3_UnknownActivity ==
  [][(Completes({"signup", "unregister"})
        /\ last'.name \notin DOMAIN activities)
      => /\ last'.status =
              IF NoSession(teacher_sessions, last'.cookie) THEN 401 ELSE 404
         /\ activities' = activities
         /\ teacher_sessions' = teacher_sessions]_vars

C3_Witness ==
  /\ last.op = "signup"
  /\ last.status = 404
  /\ last.name = "Knitting Circle"
  /\ last.cookie \in DOMAIN teacher_sessions

\* C4: login succeeds exactly when the username is in the credential store
\* and the password equals the stored one. A success adds one new token,
\* mapped to that username, to the session table, and a signup or unregister
\* carrying that token then passes the authentication gate. A failure is a
\* 401 and leaves the session table unchanged.
C4_Login ==
  [][Completes({"login"}) =>
       LET username == last'.username
           password == last'.password
           token == last'.set_cookie
       IN /\ (last'.status = 200) <=>
               (/\ username \in DOMAIN teacher_credentials
                /\ teacher_credentials[username] = password)
          /\ (last'.status = 200) =>
               /\ token \notin DOMAIN teacher_sessions
               /\ DOMAIN teacher_sessions' = DOMAIN teacher_sessions \cup {token}
               /\ teacher_sessions'[token] = username
               /\ \A old \in DOMAIN teacher_sessions :
                    teacher_sessions'[old] = teacher_sessions[old]
               /\ \A name \in RequestNames, email \in RequestEmails :
                    /\ SignupOutcome(teacher_sessions', activities', token,
                                     name, email).status # 401
                    /\ UnregisterOutcome(teacher_sessions', activities', token,
                                         name, email).status # 401
          /\ (last'.status # 200) =>
               /\ last'.status = 401
               /\ teacher_sessions' = teacher_sessions]_vars

C4_Witness ==
  /\ last.op = "login"
  /\ last.status = 200
  /\ last.username = "ms.jones"
  /\ last.set_cookie = TokenUrlsafe(2)
  /\ DictGet(teacher_sessions, TokenUrlsafe(2)) = "ms.jones"

\* Every cookie value a request of the model can carry.
AllCookies == {None, "", Forged} \cup {TokenUrlsafe(i) : i \in 1..MaxTokens}

\* C5: after a logout request carrying token t, every later signup or
\* unregister request carrying t ends with 401 and /auth/status with t
\* reports authenticated = false, whatever requests (new logins included)
\* happen in between. Stated step by step: a logout carrying t leaves t out
\* of the session table; a cookie value a client holds that is not in the
\* table is not in it after any step either; and a request carrying such a
\* value is answered as unauthenticated.
C5_LogoutInvalidates ==
  [][\A cookie \in AllCookies :
       /\ (Completes({"logout"}) /\ last'.cookie = cookie)
            => cookie \notin DOMAIN teacher_sessions'
       /\ (cookie \in RequestCookies /\ cookie \notin DOMAIN teacher_sessions)
            => /\ cookie \notin DOMAIN teacher_sessions'
               /\ (Completes({"signup", "unregister"}) /\ last'.cookie = cookie)
                    => last'.status = 401
               /\ (Completes({"status"}) /\ last'.cookie = cookie)
                    => (~last'.authenticated /\ last'.username = None)]_vars

C5_Witness ==
  /\ last.op = "status"
  /\ last.cookie = TokenUrlsafe(1)
  /\ ~last.authenticated
  /\ DictGet(teacher_sessions, TokenUrlsafe(2)) = "mr.smith"
  /\ teacher_credentials["mr.smith"] = "secret"

\* The request completed by the step came from an authenticated caller and
\* named an activity of the registry.
AuthenticatedOnKnown ==
  /\ ~NoSession(teacher_sessions, last'.cookie)
  /\ last'.name \in DOMAIN activities

\* C6: for an authenticated caller and a known activity A, signup(A, e) with
\* e already in A's participants ends with 400 and leaves the activities and
\* the session table unchanged; a signup that repeats the successful signup
\* just before it ends with 400 and the participant count stays as the first
\* one left it.
C6_DuplicateSignup ==
  [][/\ (Completes({"signup"}) /\ AuthenticatedOnKnown
           /\ ListContains(activities[last'.name].participants, last'.email))
        => /\ last'.status = 400
           /\ activities' = activities
           /\ teacher_sessions' = teacher_sessions
     /\ (Completes({"signup"})
           /\ last.op = "signup" /\ last.status = 200
           /\ last'.cookie = last.cookie /\ last'.name = last.name
           /\ last'.email = last.email)
        => /\ last'.status = 400
           /\ Len(activities'[last.name].participants) =
                Len(activities[last.name].participants)]_vars

C6_Witness ==
  /\ last.op = "signup"
  /\ last.status = 400
  /\ last.name = "Chess Club"
  /\ last.email = NewEmail
  /\ ListCount(activities["Chess Club"].participants, NewEmail) = 1

\* C7: for an authenticated caller and a known activity A, unregister(A, e)
\* with e not in A's participants ends with 400 and leaves all state
\* unchanged; with e in A's participants it succeeds and e is not in A's
\* participants afterwards.
C7_Unregister ==
  [][(Completes({"unregister"}) /\ AuthenticatedOnKnown)
      => IF ListContains(activities[last'.name].participants, last'.email)
         THEN /\ last'.status = 200
              /\ ~ListContains(activities'[last'.name].participants,
                               last'.email)
         ELSE /\ last'.status = 400
              /\ activities' = activities
              /\ teacher_sessions' = teacher_sessions
              /\ teacher_credentials' = teacher_credentials]_vars

C7_Witness ==
  /\ last.op = "unregister"
  /\ last.status = 200
  /\ last.name = "Chess Club"
  /\ last.email = SeedEmail
  /\ ~ListContains(activities["Chess Club"].participants, SeedEmail)
  /\ ListContains(activities["Chess Club"].participants, NewEmail)

\* C8 as claimed: with signup and unregister requests interleaving between
\* the membership test and the list mutation, the uniqueness of emails still
\* holds: no email is in a participants list more than once, so two
\* concurrent signups of the same new email have not both appended it.
C8_Original ==
  \A name \in DOMAIN activities :
    \A i \in 1..Len(activities[name].participants) :
      ListCount(activities[name].participants,
                activities[name].participants[i]) <= 1

\* C9: a token issued by a login keeps resolving to the same username over
\* every step that is not a logout carrying that token.
C9_SessionPersists ==
  [][\A token \in DOMAIN teacher_sessions :
       ~(Completes({"logout"}) /\ last'.cookie = token)
         => /\ token \in DOMAIN teacher_sessions'
            /\ teacher_sessions'[token] = teacher_sessions[token]
            /\ GetCurrentTeacher(teacher_sessions', token) =
                 teacher_sessions[token]]_vars

C9_Witness ==
  /\ last.op = "logout"
  /\ last.cookie = TokenUrlsafe(2)
  /\ TokenUrlsafe(2) \notin DOMAIN teacher_sessions
  /\ DictGet(teacher_sessions, TokenUrlsafe(1)) = "mr.smith"
  /\ ListContains(activities["Chess Club"].participants, NewEmail)

\* C10: logout always answers 200 and never changes an activity; with no
\* cookie, an empty one or one that is not in the session table it leaves
\* the session table unchanged; and the cookie it carried is not in the
\* table afterwards, so that a second logout with it changes nothing more.
C10_LogoutIdempotent ==
  [][Completes({"logout"})
      => /\ last'.status = 200
         /\ activities' = activities
         /\ NoSession(teacher_sessions, last'.cookie)
              => teacher_sessions' = teacher_sessions
         /\ NoSession(teacher_sessions', last'.cookie)
         /\ LogoutSessions(teacher_sessions', last'.cookie) = teacher_sessions'
         /\ \A other \in DOMAIN teacher_sessions \ {last'.cookie} :
              DictGet(teacher_sessions', other) = teacher_sessions[other]]_vars

C10_Witness ==
  /\ last.op = "logout"
  /\ last.cookie = TokenUrlsafe(1)
  /\ tokens_issued = 1
  /\ teacher_sessions = EmptyDict

\* C11: signup does not look at the capacity: for an authenticated caller, a
\* known activity A and an email not in A's participants it succeeds and
\* appends the email, also when A already has max_participants participants
\* or more; the witness is a state with more participants than
\* max_participants.
C11_NoCapacityCheck ==
  [][(Completes({"signup"}) /\ AuthenticatedOnKnown
        /\ ~ListContains(activities[last'.name].participants, last'.email))
      => /\ last'.status = 200
         /\ Len(activities'[last'.name].participants) =
              Len(activities[last'.name].participants) + 1
         /\ ListContains(activities'[last'.name].participants, last'.email)]_vars

C11_Witness ==
  /\ last.op = "signup"
  /\ last.status = 200
  /\ last.name = "Chess Club"
  /\ Len(activities["Chess Club"].participants) >
       activities["Chess Club"].max_participants

\* The outcome the handler of the operation computes in the current state.
OutcomeOf(op, cookie, name, email) ==
  IF op = "signup"
  THEN SignupOutcome(teacher_sessions, activities, cookie, name, email)
  ELSE UnregisterOutcome(teacher_sessions, activities, cookie, name, email)

\* C12: the outcome of a signup or unregister request made with a valid
\* token does not depend on the teacher the token belongs to: the same
\* request made with any other valid token in the same state has the same
\* status and leaves the same activities; and an unregister that follows a
\* successful signup of the same email to the same activity, made with the
\* token of another teacher, succeeds.
C12_TeacherIndependent ==
  [][/\ (Completes({"signup", "unregister"})
           /\ ~NoSession(teacher_sessions, last'.cookie))
        => \A other \in DOMAIN teacher_sessions :
             LET out == OutcomeOf(last'.op, other, last'.name, last'.email)
             IN /\ out.status = last'.status
                /\ out.activities = activities'
     /\ (Completes({"unregister"})
           /\ last.op = "signup" /\ last.status = 200
           /\ last'.name = last.name /\ last'.email = last.email
           /\ ~NoSession(teacher_sessions, last.cookie)
           /\ ~NoSession(teacher_sessions, last'.cookie)
           /\ teacher_sessions[last'.cookie] # teacher_sessions[last.cookie])
        => /\ last'.status = 200
           /\ ~ListContains(activities'[last'.name].participants,
                            last'.email)]_vars

C12_Witness ==
  /\ last.op = "unregister"
  /\ last.status = 200
  /\ last.email = NewEmail
  /\ last.cookie = TokenUrlsafe(2)
  /\ DictGet(teacher_sessions, TokenUrlsafe(2)) = "ms.jones"
  /\ DictGet(teacher_sessions, TokenUrlsafe(1)) = "mr.smith"

\* The seed participant of Chess Club that is in no request of the model.
NeverResigned == "daniel@mergington.edu"

\* The list without the element x, the other elements in their order.
Without(list, x) == SelectSeq(list, LAMBDA y : y # x)

\* C13: a successful signup puts the email at the end of the activity's
\* participants list and leaves the list before it as it was; a successful
\* unregister takes that email out and keeps the others in their order.
\* Hence the list is in the order of the most recent successful signups:
\* the seed participant no request of the model names stays in front of
\* every participant that is not of the seed, whenever that one signed up.
C13_SignupOrder ==
  [][/\ (Completes({"signup", "unregister"}) /\ last'.status = 200)
        => LET before == activities[last'.name].participants
               after == activities'[last'.name].participants
           IN IF last'.op = "signup"
              THEN /\ Len(after) = Len(before) + 1
                   /\ after[Len(after)] = last'.email
                   /\ SubSeq(after, 1, Len(before)) = before
              ELSE /\ after = Without(before, last'.email)
                   /\ Len(after) = Len(before) - 1
     /\ LET list == activities'["Chess Club"].participants
        IN \A i, j \in 1..Len(list) :
             (/\ list[i] = NeverResigned
              /\ ~ListContains(SeedActivity("Chess Club").participants, list[j]))
             => i < j]_vars

C13_Witness ==
  /\ last.op = "signup"
  /\ last.status = 200
  /\ last.email = SeedEmail
  /\ activities["Chess Club"].participants =
       <<NeverResigned, NewEmail, SeedEmail>>

\* The entry of teachers.json has a non-empty username and a non-empty
\* password.
ValidEntry(teacher) ==
  /\ teacher.username # None /\ teacher.username # ""
  /\ teacher.password # None /\ teacher.password # ""

\* C14: the credential store holds exactly the entries of teachers.json
\* that have a non-empty username and a non-empty password; startup fails
\* exactly when the file is missing or has no such entry; so every stored
\* password is non-empty and no login with an empty password succeeds.
C14_CredentialLoading ==
  LET entries == teachers_file.teachers
      valid == {i \in 1..Len(entries) : ValidEntry(entries[i])}
  IN /\ (startup = "failed") <=> (~teachers_file.exists \/ valid = {})
     /\ (startup = "running") =>
          /\ DOMAIN teacher_credentials = {entries[i].username : i \in valid}
          /\ \A i \in valid :
               teacher_credentials[entries[i].username] = entries[i].password
     /\ (startup = "failed") => last = NoResponse
     /\ \A username \in DOMAIN teacher_credentials :
          teacher_credentials[username] # None /\ teacher_credentials[username] # ""
     /\ (last.op = "login" /\ last.password = "") => last.status = 401

C14_Witness ==
  /\ startup = "running"
  /\ \E i \in 1..Len(teachers_file.teachers) :
       /\ teachers_file.teachers[i].username = "ms.jones"
       /\ teachers_file.teachers[i].password = ""
  /\ "ms.jones" \notin DOMAIN teacher_credentials
  /\ last.op = "login"
  /\ last.username = "ms.jones"
  /\ last.password = ""
  /\ last.status = 401

\* C15 as claimed: with requests interleaving, every signup or unregister
\* request ends with one of the tabulated outcomes, success, 401, 404 or
\* 400; two concurrent unregisters of the same registered email end with one
\* success and one 400 and with no other error.
C15_Original ==
  (last.op \in {"signup", "unregister"}) => last.status \in {200, 401, 404, 400}

\* C16: no step changes the activity names, an activity's description,
\* schedule or max_participants, or the credential store. A successful
\* signup or unregister on activity A changes A's participants only: every
\* other activity and the session table stay as they were. Login and logout
\* leave the activities alone, and nothing else changes the session table.
C16_Frame ==
  [][/\ DOMAIN activities' = DOMAIN activities
     /\ \A name \in DOMAIN activities :
          /\ activities'[name].description = activities[name].description
          /\ activities'[name].schedule = activities[name].schedule
          /\ activities'[name].max_participants =
               activities[name].max_participants
     /\ teacher_credentials' = teacher_credentials
     /\ (Completes({"signup", "unregister"}) /\ last'.status = 200)
          => /\ \A name \in DOMAIN activities \ {last'.name} :
                  activities'[name] = activities[name]
             /\ activities'[last'.name].participants #
                  activities[last'.name].participants
             /\ teacher_sessions' = teacher_sessions
     /\ Completes({"login", "logout"}) => activities' = activities
     /\ (teacher_sessions' # teacher_sessions)
          => last'.op \in {"login", "logout"}
     /\ (activities' # activities)
          => (last'.op \in {"signup", "unregister"} /\ last'.status = 200)]_vars

C16_Witness ==
  /\ last.op = "signup"
  /\ last.status = 200
  /\ last.name = "Chess Club"
  /\ activities["Chess Club"].participants #
       SeedActivity("Chess Club").participants
  /\ \A name \in DOMAIN activities \ {"Chess Club"} :
       activities[name] = SeedActivity(name)
  /\ DOMAIN teacher_sessions = {TokenUrlsafe(1), TokenUrlsafe(2)}

\* C17: every token in the session table maps to a username that is a key of
\* the credential store, and a token that stays in the table keeps its
\* username.
C17_SessionsWellFormed ==
  [][\A token \in DOMAIN teacher_sessions' :
       /\ teacher_sessions'[token] \in DOMAIN teacher_credentials'
       /\ teacher_sessions'[token] # None
       /\ token \in DOMAIN teacher_sessions
            => teacher_sessions'[token] = teacher_sessions[token]]_vars

C17_Witness ==
  /\ last.op = "login"
  /\ last.status = 200
  /\ DOMAIN teacher_sessions = {TokenUrlsafe(1), TokenUrlsafe(2)}
  /\ teacher_sessions[TokenUrlsafe(1)] = "ms.jones"
  /\ teacher_sessions[TokenUrlsafe(2)] = "mr.smith"
  /\ DOMAIN teacher_credentials = {"mr.smith", "ms.jones"}

\* C18: a login leaves every earlier token, those of the same teacher
\* included, in the session table with its username; a logout takes out the
\* token it carries and no other.
C18_SessionsIndependent ==
  [][/\ (Completes({"login"}) /\ last'.status = 200)
          => /\ \A token \in DOMAIN teacher_sessions :
                  DictGet(teacher_sessions', token) = teacher_sessions[token]
             /\ Cardinality(DOMAIN teacher_sessions') =
                  Cardinality(DOMAIN teacher_sessions) + 1
     /\ Completes({"logout"})
          => /\ DOMAIN teacher_sessions' =
                  DOMAIN teacher_sessions \ {last'.cookie}
             /\ \A token \in DOMAIN teacher_sessions' :
                  teacher_sessions'[token] = teacher_sessions[token]]_vars

C18_Witness ==
  /\ last.op = "login"
  /\ last.status = 200
  /\ last.username = "mr.smith"
  /\ DictGet(teacher_sessions, TokenUrlsafe(1)) = "mr.smith"
  /\ DictGet(teacher_sessions, TokenUrlsafe(2)) = "mr.smith"

\* The set of elements of the list.
Elements(list) == {list[i] : i \in 1..Len(list)}

\* C19: in every reachable state, for a valid token, a known activity A and
\* an email e: if e is not in A's participants, signup(A, e) and then
\* unregister(A, e) both succeed and leave the activities exactly as they
\* were; if e is in A's participants, unregister(A, e) and then signup(A, e)
\* both succeed and leave the same set of participants with e moved to the
\* end of the list, the others in their order.
C19_RoundTrips ==
  \A cookie \in DOMAIN teacher_sessions,
     name \in DOMAIN activities \cap RequestNames,
     email \in RequestEmails :
    LET list == activities[name].participants
    IN IF ~ListContains(list, email)
       THEN LET first == SignupOutcome(teacher_sessions, activities,
                                       cookie, name, email)
                second == UnregisterOutcome(teacher_sessions, first.activities,
                                            cookie, name, email)
            IN /\ first.status = 200
               /\ ListContains(first.activities[name].participants, email)
               /\ second.status = 200
               /\ second.activities = activities
       ELSE LET first == UnregisterOutcome(teacher_sessions, activities,
                                           cookie, name, email)
                second == SignupOutcome(teacher_sessions, first.activities,
                                        cookie, name, email)
                after == second.activities[name].participants
            IN /\ first.status = 200
               /\ ~ListContains(first.activities[name].participants, email)
               /\ second.status = 200
               /\ Elements(after) = Elements(list)
               /\ Len(after) = Len(list)
               /\ after = Append(Without(list, email), email)
               /\ \A other \in DOMAIN activities \ {name} :
                    second.activities[other] = activities[other]

C19_Witness ==
  /\ last.op = "unregister"
  /\ last.status = 200
  /\ last.name = "Chess Club"
  /\ last.email = NewEmail
  /\ activities = SeedActivities
  /\ DOMAIN teacher_sessions # {}

\* C20: the read endpoints change nothing but the response: GET /activities
\* answers any caller with the whole current registry, and GET /auth/status
\* answers authenticated = true with the mapped username exactly when the
\* cookie is a token of the session table, and authenticated = false with no
\* username otherwise.
C20_ReadEndpoints ==
  [][/\ Completes({"get_activities", "status", "root"})
          => UNCHANGED <<teachers_file, startup, teacher_credentials,
                         teacher_sessions, activities, tokens_issued, threads>>
     /\ Completes({"get_activities"})
          => /\ last'.status = 200
             /\ last'.body = activities
             /\ DOMAIN last'.body = ActivityNames
     /\ Completes({"status"})
          => /\ last'.status = 200
             /\ last'.authenticated <=>
                  (last'.cookie \in DOMAIN teacher_sessions)
             /\ last'.username =
                  IF last'.cookie \in DOMAIN teacher_sessions
                  THEN teacher_sessions[last'.cookie] ELSE None]_vars

C20_Witness ==
  /\ last.op = "get_activities"
  /\ last.status = 200
  /\ teacher_sessions = EmptyDict
  /\ ListContains(last.body["Chess Club"].participants, NewEmail)
  /\ last.body = activities

====
